---- MODULE Spec2Model ----
(***************************************************************************)
(* Voice-session orchestration of the medical chatbot front end:           *)
(*   - the transcription relay and transcript persistence of               *)
(*     components/livekit-voice-room.tsx (RoomContent, LivekitVoiceRoom);  *)
(*   - client-side session creation (hooks/use-voice-session.ts,           *)
(*     components/voice-chat-interface.tsx,                                *)
(*     components/voice-session-with-transcriptions.tsx,                   *)
(*     lib/voice-session-api.ts, lib/auth-utils.ts);                       *)
(*   - the two LiveKit token routes (POST token, GET connection-details).  *)
(* Each subsystem has its own specification; the variables of the other    *)
(* subsystems stay at their initial values.                                *)
(***************************************************************************)
EXTENDS Integers, Sequences, FiniteSets, TLC

\* ------------------------------------------------------------------ bounds
\* text streams the transport delivers during one call
MaxEvents == 3
\* utterances spoken during one call
MaxUtterances == 2
\* requests the token routes answer
MaxRequests == 2
\* milliseconds the server clock advances
MaxClock == 2
\* session starts the client makes
MaxStarts == 2
\* seconds the client clock runs to
MaxNow == 2
\* calls of the hook's endSession
MaxEnds == 2
\* presses of the Add Test Message button during one call
MaxTests == 1
\* ConnectionStateChanged listeners that are told apart
MaxListeners == 2
\* presses of the Try Again button
MaxRetries == 2
\* presses of a button that starts a conversation
MaxClicks == 5

\* =========================================================================
\*  PART 1 - transcription relay and transcript persistence
\* =========================================================================

VARIABLES
    roomState,              \* LiveKit room: "connecting" | "connected" |
                            \* "disconnecting" (room.disconnect() called) | "disconnected"
    handlerRegistered,      \* a text-stream handler is registered for lk.transcription
    mounted,                \* LivekitVoiceRoom (and RoomContent inside it) is mounted
    showTranscriptions,     \* parent state of VoiceSessionWithTranscriptions
    streams,                \* streams whose handler was invoked and awaits reader.readAll()
    delivered,              \* number of text streams the transport has delivered
    dropped,                \* streams delivered while connected that found no handler
    uttPhase,               \* transport side: phase of every utterance
    transcriptions,         \* RoomContent state: committed (final) lines
    currentTranscriptions,  \* RoomContent state: in-flight map, as a set of entries
    transcriptionData,      \* LivekitVoiceRoom state: persistence buffer
    cleanupData,            \* transcriptionData captured by the installed save effect
    renderPending,          \* LivekitVoiceRoom has an update that is not yet committed
    saveRequests,           \* calls of VoiceSessionAPI.saveVoiceTranscription, in order
    uiError,                \* VoiceSessionWithTranscriptions state `error` ("none": null)
    endedBy,                \* what ended the call: "none" | "user" | "remote"
    stateListeners,         \* ConnectionStateChanged listeners on the room, counted
                            \* up to MaxListeners
    errorReports            \* onError calls made by the room's latest transition to
                            \* disconnected

relayVars == <<roomState, handlerRegistered, mounted, showTranscriptions, streams,
               delivered, dropped, uttPhase, transcriptions, currentTranscriptions,
               transcriptionData, cleanupData, renderPending, saveRequests,
               uiError, endedBy, stateListeners,
                   errorReports>>

\* the parent VoiceSessionWithTranscriptions and the rooms it has joined
VARIABLES
    voiceSessionSet,  \* parent state `voiceSession` is not null
    joins,            \* mounts of LiveKitRoom with connect={true}: join attempts
    retries,          \* presses of the parent's Try Again button
    staleRooms        \* rooms of earlier mounts on which disconnect() has not
                      \* completed: the ConnectionStateChanged listeners of each

retryVars == <<voiceSessionSet, joins, retries, staleRooms>>

\* token routes (part 3)
VARIABLES
    clock,          \* Date.now() on the server, in milliseconds
    envConfigured,  \* LIVEKIT_API_KEY, LIVEKIT_API_SECRET and NEXT_PUBLIC_LIVEKIT_URL are set
    issued,         \* the access tokens minted so far, in order
    answers         \* the HTTP answers sent so far, in order

tokenVars == <<clock, envConfigured, issued, answers>>

\* client-side session creation (part 2)
VARIABLES
    nowSec,             \* Math.floor(Date.now() / 1000) in the browser
    storage,            \* localStorage: the access_token and auth_token keys
    userAuthenticated,  \* VoiceChatInterface state, set by checkAuth
    flow,               \* the session start that is under way, or NoFlow
    starts,             \* session starts made so far
    nCreated,           \* conversations the conversation store has created
    nFallback,          \* crypto.randomUUID() values drawn by startSession
    sessionCalls,       \* calls of VoiceSessionAPI.createVoiceSession, in order
    clientRooms,        \* room names the components derived for a started session
    lastError           \* code of the last error shown to the user

sessionVars == <<nowSec, storage, userAuthenticated, flow, starts, nCreated, nFallback,
                 sessionCalls, clientRooms, lastError>>

\* state of the useVoiceSession hook (part 2)
VARIABLES
    hookSessionId,  \* session?.id (NullId: session is null)
    livekitToken,   \* livekitInfo.token ("null": no token)
    intervalRef,    \* statusIntervalRef.current holds a timer
    liveTimers,     \* setInterval timers that no clearInterval has stopped
    endCalls,       \* calls of VoiceSessionAPI.endVoiceSession, in order
    ends            \* calls of endSession made so far

hookVars == <<hookSessionId, livekitToken, intervalRef, liveTimers, endCalls, ends>>

\* state of the conversation store (part 4)
VARIABLES
    messagesTable,       \* rows of public.messages, in insertion order
    voiceSessionsTable,  \* rows of public.voice_sessions
    lastSave             \* the latest call of saveVoiceTranscription and its result

storeVars == <<messagesTable, voiceSessionsTable, lastSave>>

\* state of the MedicalChatbot page (part 5)
VARIABLES
    isCreatingConversation,  \* the flag, as React state
    viewState,               \* "main" | "conversation", as React state
    activeConversation,      \* id of the conversation shown (NullId: null)
    committedFlag,           \* isCreatingConversation as the committed render saw it:
                             \* the value that handleStartNewConversation tests
    committedView,           \* viewState as the committed render saw it
    pendingCreates,          \* createConversation requests in flight
    createdCount,            \* conversations created so far
    clicks,                  \* presses of a button that starts a conversation
    ignoredClicks            \* presses that returned at the flag test

pageVars == <<isCreatingConversation, viewState, activeConversation, committedFlag,
              committedView, pendingCreates, createdCount, clicks, ignoredClicks>>

\* state of the VoiceChatInterface component around its transcript view
VARIABLES
    connectionDetails,     \* TRUE: connection details are set (the room is rendered)
    voiceSessionMessages,  \* the lines, each with the session that received it
    showTextMessages,      \* the flag of the transcript view
    voiceSessions          \* sessions connected so far; the last is the current one

transcriptVars == <<connectionDetails, voiceSessionMessages, showTextMessages,
                    voiceSessions>>

vars == <<relayVars, retryVars, tokenVars, sessionVars, hookVars, storeVars, pageVars,
          transcriptVars>>

\* a step of one subsystem leaves the others alone
RelayFrame == UNCHANGED <<tokenVars, sessionVars, hookVars, storeVars, pageVars,
                          transcriptVars>>
SessionFrame == UNCHANGED <<relayVars, retryVars, tokenVars, storeVars, pageVars,
                            transcriptVars>>
TokenFrame == UNCHANGED <<relayVars, retryVars, sessionVars, hookVars, storeVars,
                          pageVars, transcriptVars>>
StoreFrame == UNCHANGED <<relayVars, retryVars, tokenVars, sessionVars, hookVars,
                          pageVars, transcriptVars>>
PageFrame == UNCHANGED <<relayVars, retryVars, tokenVars, sessionVars, hookVars,
                         storeVars, transcriptVars>>
TranscriptFrame == UNCHANGED <<relayVars, retryVars, tokenVars, sessionVars,
                               hookVars, storeVars, pageVars>>

Utterances == 1..MaxUtterances

\* room.localParticipant.identity and the identity of the remote agent
LocalIdentity == "user-local"
AgentIdentity == "agent"

\* who speaks an utterance: odd utterances are the user's, even ones the agent's
UtteranceIdentity(u) == IF u % 2 = 1 THEN LocalIdentity ELSE AgentIdentity

\* identifiers are pairs; the conversation id that is null or absent
NullId == <<"null", 0>>

\* no call of saveVoiceTranscription has been made
NoSave == [conversationId |-> NullId, messages |-> <<>>, result |-> "none"]

\* roomName prop handed to LivekitVoiceRoom: `voice-session-${conversationId}`
RoomNameOf(conversationId) == <<"voice-session-", conversationId>>

\* the conversation of the call that the relay specification follows
CallConversation == <<"conv", 1>>

\* what a text stream carries: attributes lk.transcribed_track_id and lk.is_final
\* (fin = "none": the attribute is absent), and whether reader.readAll() succeeds
StreamShapes ==
    { [track |-> TRUE,  fin |-> "true", readable |-> TRUE],    \* final transcription
      [track |-> TRUE,  fin |-> "none", readable |-> TRUE],    \* interim, no is_final
      [track |-> FALSE, fin |-> "none", readable |-> TRUE],    \* unrelated data message
      [track |-> TRUE,  fin |-> "true", readable |-> FALSE] }  \* payload cannot be read

\* the streams that are readable transcriptions
TranscriptionShapes == {shape \in StreamShapes : shape.track /\ shape.readable}

\* attributes && attributes['lk.transcribed_track_id']
IsTranscription(e) == e.track

\* a test that takes a stream without the lk.is_final attribute for a final one
IsFinal_UnlessFalse(e) == e.fin # "false"

\* attributes && attributes['lk.is_final'] === 'true'
IsFinal(e) == e.fin = "true"

\* a classification that takes every speaker for the user
IsUser_Everyone(e) == TRUE

\* participantInfo.identity === room.localParticipant.identity
IsUser(e) == e.identity = LocalIdentity

\* `${participantInfo.identity}-${Date.now()}-${Math.random()}`: e.n stands for the
\* (clock, random) pair of this handler invocation, distinct for every invocation
TranscriptionId(e) == <<e.identity, e.n>>

\* the TranscriptionMessage built by the handler (utt: the utterance the text is of)
TranscriptionMessage(e) ==
    [id |-> TranscriptionId(e), text |-> e.n, isUser |-> IsUser(e),
     isFinal |-> IsFinal(e), utt |-> e.utt]

\* newMap.set(transcriptionId, transcriptionMessage)
MapSet(map, msg) == {m \in map : m.id # msg.id} \cup {msg}

\* newMap.delete(transcriptionId)
MapDelete(map, id) == {m \in map : m.id # id}

\* handleTranscription that stores the user's lines only
HandleTranscription_UserOnly(data, e, isFinal, isUser) ==
    IF isFinal /\ isUser
    THEN Append(data, [text |-> e.n, isUser |-> isUser, fin |-> e.fin])
    ELSE data

\* handleTranscription without the isFinal test
HandleTranscription_StoresInterim(data, e, isFinal, isUser) ==
    Append(data, [text |-> e.n, isUser |-> isUser, fin |-> e.fin])

\* LivekitVoiceRoom.handleTranscription: only a final line is stored; fin keeps the
\* lk.is_final attribute of the stream the line was made from
HandleTranscription(data, e, isFinal, isUser) ==
    IF isFinal
    THEN Append(data, [text |-> e.n, isUser |-> isUser, fin |-> e.fin])
    ELSE data

\* conversation id taken from roomName in the save effect's cleanup
ConversationIdOf(roomName) ==
    IF roomName[1] = "voice-session-" THEN roomName[2] ELSE NullId

\* transcriptionData.map(item => ({role, content, timestamp}))
SaveMessages(data) ==
    [i \in 1..Len(data) |->
        [role |-> IF data[i].isUser THEN "user" ELSE "assistant",
         content |-> data[i].text, fin |-> data[i].fin]]

\* cleanup of the save effect, run with the transcriptionData its closure captured
SaveCleanup(requests, data, roomName, teardown) ==
    IF Len(data) > 0 /\ ConversationIdOf(roomName) # NullId
    THEN Append(requests, [conversationId |-> ConversationIdOf(roomName),
                           messages |-> SaveMessages(data),
                           atTeardown |-> teardown, result |-> "pending"])
    ELSE requests

RelayInit ==
    /\ roomState = "connecting"
    /\ handlerRegistered = FALSE
    /\ mounted = TRUE
    /\ showTranscriptions = TRUE
    /\ streams = {}
    /\ delivered = 0
    /\ dropped = {}
    /\ uttPhase = [u \in Utterances |-> "idle"]
    /\ transcriptions = <<>>
    /\ currentTranscriptions = {}
    /\ transcriptionData = <<>>
    /\ cleanupData = <<>>
    /\ renderPending = FALSE
    /\ saveRequests = <<>>
    /\ uiError = "none"
    /\ endedBy = "none"
    /\ stateListeners = 1
    /\ errorReports = 0
    /\ voiceSessionSet = TRUE
    /\ joins = 1
    /\ retries = 0
    /\ staleRooms = <<>>
    \* the token routes answer no request
    /\ clock = 0 /\ envConfigured = TRUE /\ issued = <<>> /\ answers = <<>>
    \* no session start is made
    /\ nowSec = 1 /\ storage = <<>> /\ userAuthenticated = FALSE /\ flow = <<>>
    /\ starts = 0 /\ nCreated = 0 /\ nFallback = 0 /\ sessionCalls = <<>>
    /\ clientRooms = {} /\ lastError = "none"
    /\ hookSessionId = NullId /\ livekitToken = "null" /\ intervalRef = FALSE
    /\ liveTimers = 0 /\ endCalls = <<>> /\ ends = 0
    /\ messagesTable = <<>> /\ voiceSessionsTable = {} /\ lastSave = NoSave
    /\ isCreatingConversation = FALSE /\ viewState = "main"
    /\ activeConversation = NullId /\ committedFlag = FALSE
    /\ committedView = "main" /\ pendingCreates = 0 /\ createdCount = 0
    /\ clicks = 0 /\ ignoredClicks = 0
    /\ connectionDetails = FALSE /\ voiceSessionMessages = <<>>
    /\ showTextMessages = FALSE /\ voiceSessions = 0

\* RoomEvent.Connected -> handleConnected: the handler is registered
RoomConnected ==
    /\ RelayFrame
    /\ UNCHANGED retryVars
    /\ mounted
    /\ roomState = "connecting"
    /\ roomState' = "connected"
    /\ handlerRegistered' = TRUE
    /\ UNCHANGED <<mounted, showTranscriptions, streams, delivered, dropped, uttPhase,
                   transcriptions, currentTranscriptions, transcriptionData,
                   cleanupData, renderPending, saveRequests, uiError, endedBy, stateListeners,
                   errorReports>>

\* the transport delivers a text stream on lk.transcription: the registered handler
\* is invoked and waits for reader.readAll(); without a handler the stream is dropped
DeliverStream(u, shape) ==
    /\ RelayFrame
    /\ UNCHANGED retryVars
    /\ roomState = "connected"
    /\ delivered < MaxEvents
    /\ uttPhase[u] # "closed"
    /\ LET e == [n |-> delivered + 1, utt |-> u, identity |-> UtteranceIdentity(u),
                 track |-> shape.track, fin |-> shape.fin, readable |-> shape.readable]
       IN  /\ delivered' = delivered + 1
           /\ uttPhase' = IF ~shape.track THEN uttPhase
                          ELSE [uttPhase EXCEPT ![u] = IF shape.fin = "true"
                                                       THEN "closed" ELSE "open"]
           /\ IF handlerRegistered
              THEN streams' = streams \cup {e} /\ dropped' = dropped
              ELSE streams' = streams /\ dropped' = dropped \cup {e.n}
    /\ UNCHANGED <<roomState, handlerRegistered, mounted, showTranscriptions,
                   transcriptions, currentTranscriptions, transcriptionData,
                   cleanupData, renderPending, saveRequests, uiError, endedBy, stateListeners,
                   errorReports>>

\* timestamp of the i-th committed line: new Date() is taken when the line is made,
\* just before it is appended, so the position in the list stands for the time
CommittedTimestamp(i) == i

\* allTranscriptions, its committed lines: sorted by timestamp, lines of equal
\* timestamp staying in the order of the list
DisplayedCommitted ==
    LET n == Len(transcriptions)
        Before(i, j) == \/ CommittedTimestamp(i) < CommittedTimestamp(j)
                        \/ CommittedTimestamp(i) = CommittedTimestamp(j) /\ i < j
        Rank(i) == Cardinality({j \in 1..n : Before(j, i)}) + 1
    IN  [k \in 1..n |-> transcriptions[CHOOSE i \in 1..n : Rank(i) = k]]

\* a handler that takes the text of a stream whose payload could not be read
IsHandled_IgnoresReadFailure(e) == IsTranscription(e)

\* a handler that takes every readable message for a transcription
IsHandled_AnyMessage(e) == e.readable

\* the handler reaches its transcription branch: readAll() resolved (a rejection
\* goes to the catch, which logs) and the stream has lk.transcribed_track_id
\* (otherwise the else branch logs)
IsHandled(e) == e.readable /\ IsTranscription(e)

\* reader.readAll() settles and the rest of the handler runs
ProcessStream(e) ==
    /\ RelayFrame
    /\ UNCHANGED retryVars
    /\ e \in streams
    /\ streams' = streams \ {e}
    /\ IF mounted /\ IsHandled(e)
       THEN LET msg == TranscriptionMessage(e)
            IN  /\ transcriptions' = IF IsFinal(e) THEN Append(transcriptions, msg)
                                     ELSE transcriptions
                /\ currentTranscriptions' =
                       IF IsFinal(e) THEN MapDelete(currentTranscriptions, msg.id)
                       ELSE MapSet(currentTranscriptions, msg)
                /\ transcriptionData' =
                       HandleTranscription(transcriptionData, e, IsFinal(e), IsUser(e))
                /\ renderPending' = (renderPending \/ IsFinal(e))
       ELSE UNCHANGED <<transcriptions, currentTranscriptions, transcriptionData,
                        renderPending>>
    /\ UNCHANGED <<roomState, handlerRegistered, mounted, showTranscriptions, delivered,
                   dropped, uttPhase, cleanupData, saveRequests, uiError, endedBy, stateListeners,
                   errorReports>>

\* the test lines that addTestTranscription has put in the committed list
TestLines == {i \in DOMAIN transcriptions : transcriptions[i].id[1] = "test"}

\* Add Test Message button (shown with the transcript, once connected):
\* addTestTranscription appends a final test line to the committed list only
AddTestTranscription(isUser) ==
    /\ RelayFrame
    /\ UNCHANGED retryVars
    /\ mounted
    /\ roomState = "connected"
    /\ showTranscriptions
    /\ Cardinality(TestLines) < MaxTests
    /\ transcriptions' = Append(transcriptions,
           [id |-> <<"test", Len(transcriptions) + 1>>, text |-> 0,
            isUser |-> isUser, isFinal |-> TRUE, utt |-> 0])
    /\ UNCHANGED <<roomState, handlerRegistered, mounted, showTranscriptions, streams,
                   delivered, dropped, uttPhase, currentTranscriptions,
                   transcriptionData, cleanupData, renderPending, saveRequests,
                   uiError, endedBy, stateListeners,
                   errorReports>>

\* a saveVoiceTranscription promise settles: .then logs the success, .catch logs
\* the VoiceSessionError (AUTHENTICATION_REQUIRED, SAVE_TRANSCRIPTION_FAILED, ...)
SaveSettles(i, outcome) ==
    /\ RelayFrame
    /\ UNCHANGED retryVars
    /\ i \in DOMAIN saveRequests
    /\ saveRequests[i].result = "pending"
    /\ saveRequests' = [saveRequests EXCEPT ![i].result = outcome]
    /\ UNCHANGED <<roomState, handlerRegistered, mounted, showTranscriptions, streams,
                   delivered, dropped, uttPhase, transcriptions, currentTranscriptions,
                   transcriptionData, cleanupData, renderPending, uiError, endedBy, stateListeners,
                   errorReports>>

\* room.on(RoomEvent.ConnectionStateChanged, state => ...) in the room effect: every
\* run of the effect adds a listener, and the effect's cleanup removes none
AddStateListener(n) == IF n < MaxListeners THEN n + 1 ELSE MaxListeners

\* React commits a render of LivekitVoiceRoom: the save effect re-runs when
\* transcriptionData changed (its old cleanup runs first); RoomContent's room effect
\* re-runs because handleTranscription is a new function, and its cleanup
\* unregisters the text-stream handler, which only handleConnected registers
CommitRender ==
    /\ RelayFrame
    /\ UNCHANGED retryVars
    /\ mounted
    /\ renderPending
    /\ renderPending' = FALSE
    /\ IF cleanupData # transcriptionData
       THEN /\ saveRequests' = SaveCleanup(saveRequests, cleanupData,
                                           RoomNameOf(CallConversation), FALSE)
            /\ cleanupData' = transcriptionData
       ELSE UNCHANGED <<saveRequests, cleanupData>>
    /\ handlerRegistered' = FALSE
    /\ stateListeners' = AddStateListener(stateListeners)
    /\ UNCHANGED <<roomState, mounted, showTranscriptions, streams, delivered, dropped,
                   uttPhase, transcriptions, currentTranscriptions, transcriptionData,
                   uiError, endedBy, errorReports>>

\* Show/Hide Transcriptions button: the parent re-renders, and LivekitVoiceRoom with it
ToggleTranscriptions ==
    /\ RelayFrame
    /\ UNCHANGED retryVars
    /\ mounted
    /\ showTranscriptions' = ~showTranscriptions
    /\ renderPending' = TRUE
    /\ UNCHANGED <<roomState, handlerRegistered, mounted, streams, delivered, dropped,
                   uttPhase, transcriptions, currentTranscriptions, transcriptionData,
                   cleanupData, saveRequests, uiError, endedBy, stateListeners,
                   errorReports>>

\* the listener of RoomEvent.ConnectionStateChanged that the room effect adds and
\* no cleanup removes: on Disconnected, handleError -> onError -> setError(message)
OnConnectionStateChanged(state, error) ==
    IF state = "disconnected" THEN "Connection failed" ELSE error

\* LivekitVoiceRoom unmounts: the cleanups of the committed effects run, and the
\* room goes to `nextRoomState`
Unmount(nextRoomState) ==
    /\ mounted' = FALSE
    /\ roomState' = nextRoomState
    /\ handlerRegistered' = FALSE
    /\ renderPending' = FALSE
    /\ saveRequests' = SaveCleanup(saveRequests, cleanupData,
                                   RoomNameOf(CallConversation), TRUE)
    /\ UNCHANGED <<showTranscriptions, streams, delivered, dropped, uttPhase,
                   transcriptions, currentTranscriptions, transcriptionData,
                   cleanupData, stateListeners>>

\* End Session button, or the end-call control (handleEndCall -> onDisconnected):
\* handleEndSession -> setVoiceSession(null); LiveKitRoom unmounts and has the
\* room disconnect
EndSession ==
    /\ RelayFrame
    /\ mounted
    /\ Unmount("disconnecting")
    /\ endedBy' = "user"
    /\ voiceSessionSet' = FALSE
    /\ UNCHANGED <<uiError, errorReports, joins, retries, staleRooms>>

\* room.disconnect() completes: the room emits ConnectionStateChanged(Disconnected);
\* handleDisconnected was removed by the room effect's cleanup
RoomClosed ==
    /\ RelayFrame
    /\ UNCHANGED retryVars
    /\ roomState = "disconnecting"
    /\ roomState' = "disconnected"
    /\ uiError' = OnConnectionStateChanged("disconnected", uiError)
    /\ errorReports' = stateListeners
    /\ UNCHANGED <<handlerRegistered, mounted, showTranscriptions, streams, delivered,
                   dropped, uttPhase, transcriptions, currentTranscriptions,
                   transcriptionData, cleanupData, renderPending, saveRequests,
                   endedBy, stateListeners>>

\* the room is closed remotely: the room emits ConnectionStateChanged(Disconnected),
\* then RoomEvent.Disconnected: handleDisconnected -> onDisconnected -> handleEndSession
RoomDisconnected ==
    /\ RelayFrame
    /\ mounted
    /\ roomState = "connected"
    /\ uiError' = OnConnectionStateChanged("disconnected", uiError)
    /\ errorReports' = stateListeners
    /\ Unmount("disconnected")
    /\ endedBy' = "remote"
    /\ voiceSessionSet' = FALSE
    /\ UNCHANGED <<joins, retries, staleRooms>>

\* what an unmount of LivekitVoiceRoom decides
ComponentVars ==
    <<mounted, roomState, handlerRegistered, renderPending, saveRequests,
      showTranscriptions, streams, delivered, dropped, uttPhase, transcriptions,
      currentTranscriptions, transcriptionData, cleanupData, stateListeners>>

\* a parent that keeps LivekitVoiceRoom on screen while it has an error
RoomRendered_DespiteError(session, error) == session

\* render of VoiceSessionWithTranscriptions: the error view if `error` is set, the
\* start view if there is no voiceSession, LivekitVoiceRoom otherwise
RoomRendered(session, error) == error = "none" /\ session

\* LiveKitRoom reports an error (the join failed, a device failed):
\* handleError -> setConnectionError, onError -> setError(error.message); the
\* parent shows its error view in place of LivekitVoiceRoom, voiceSession is kept
ConnectionError ==
    /\ RelayFrame
    /\ mounted
    /\ roomState \in {"connecting", "connected"}
    /\ uiError' = "Connection error"
    /\ IF RoomRendered(voiceSessionSet, uiError')
       THEN UNCHANGED ComponentVars
       ELSE Unmount("disconnecting")
    /\ endedBy' = "error"
    /\ UNCHANGED <<errorReports, retryVars>>

\* LivekitVoiceRoom is mounted again: a new room is created and joined, the state of
\* the components is new, and what the handlers of the former room still do is
\* done to unmounted components
Mount ==
    /\ mounted' = TRUE
    /\ roomState' = "connecting"
    /\ joins' = joins + 1
    /\ staleRooms' = IF roomState = "disconnecting"
                     THEN Append(staleRooms, stateListeners) ELSE staleRooms
    /\ stateListeners' = 1
    /\ handlerRegistered' = FALSE
    /\ streams' = {}
    /\ uttPhase' = [u \in Utterances |-> "idle"]
    /\ transcriptions' = <<>>
    /\ currentTranscriptions' = {}
    /\ transcriptionData' = <<>>
    /\ cleanupData' = <<>>
    /\ renderPending' = FALSE
    /\ endedBy' = "none"
    /\ UNCHANGED <<showTranscriptions, delivered, dropped, saveRequests>>

\* Try Again button of the parent's error view: setError(null)
TryAgain ==
    /\ RelayFrame
    /\ uiError # "none"
    /\ retries < MaxRetries
    /\ retries' = retries + 1
    /\ uiError' = "none"
    /\ IF ~mounted /\ RoomRendered(voiceSessionSet, "none")
       THEN Mount
       ELSE UNCHANGED <<ComponentVars, endedBy, joins, staleRooms>>
    /\ UNCHANGED <<voiceSessionSet, errorReports>>

\* disconnect() completes on the room of an earlier mount: its listeners call
\* onError, and the parent's error view takes the place of LivekitVoiceRoom
StaleRoomClosed(i) ==
    /\ RelayFrame
    /\ i \in DOMAIN staleRooms
    /\ staleRooms' = [k \in 1..(Len(staleRooms) - 1) |->
                         IF k < i THEN staleRooms[k] ELSE staleRooms[k + 1]]
    /\ errorReports' = staleRooms[i]
    /\ uiError' = OnConnectionStateChanged("disconnected", uiError)
    /\ IF mounted /\ ~RoomRendered(voiceSessionSet, uiError')
       THEN Unmount("disconnecting") /\ endedBy' = "error"
       ELSE UNCHANGED <<ComponentVars, endedBy>>
    /\ UNCHANGED <<voiceSessionSet, joins, retries>>

RelayNext ==
    \/ RoomConnected
    \/ \E u \in Utterances, shape \in StreamShapes :
           DeliverStream(u, shape)
    \/ \E e \in streams : ProcessStream(e)
    \/ CommitRender
    \/ ToggleTranscriptions
    \/ EndSession
    \/ RoomClosed
    \/ RoomDisconnected

\* ---------------------------------------------------------------- claims, relay

\* C1: processing the final event of an utterance that has an in-flight entry
\* adds exactly one line to the committed list, takes exactly one entry out of the
\* in-flight map, and leaves no entry of that utterance in the map.
C1_FinalCommitsOneAndClearsInFlight ==
    [][\A e \in streams :
          ( /\ ProcessStream(e)
            /\ mounted /\ e.readable /\ IsTranscription(e) /\ IsFinal(e)
            /\ \E m \in currentTranscriptions : m.utt = e.utt )
          => /\ Len(transcriptions') = Len(transcriptions) + 1
             /\ Cardinality(currentTranscriptions')
                    = Cardinality(currentTranscriptions) - 1
             /\ ~ \E m \in currentTranscriptions' : m.utt = e.utt]_vars

\* C2: a save request is issued only at teardown, and no line is sent to the
\* conversation store in more than one save request.
C2_FlushOnceAtTeardown ==
    /\ \A i \in DOMAIN saveRequests : saveRequests[i].atTeardown
    /\ \A i, j \in DOMAIN saveRequests :
          i < j => \A a \in DOMAIN saveRequests[i].messages,
                      b \in DOMAIN saveRequests[j].messages :
                        saveRequests[i].messages[a].content
                            # saveRequests[j].messages[b].content

\* C3: every text stream the transport delivers while the room is connected is
\* handed to the relay: none is skipped for want of a handler.
C3_NoDeliveredStreamSkipped == dropped = {}

\* C4: every message of every save request was made from a stream whose
\* lk.is_final attribute is 'true'; no interim line is persisted.
C4_OnlyFinalLinesPersisted ==
    \A i \in DOMAIN saveRequests :
        \A k \in DOMAIN saveRequests[i].messages :
            saveRequests[i].messages[k].fin = "true"

\* C4 witness: an interim line is in flight, and a save request has been issued
C4_Witness ==
    /\ \E m \in currentTranscriptions : ~m.isFinal
    /\ \E i \in DOMAIN saveRequests : Len(saveRequests[i].messages) > 0

\* C11: once the user's end-call action or a remote closure of the room has ended
\* the call, no error is reported to the UI.
C11_EndOfCallReportsNoError ==
    endedBy \in {"user", "remote"} => uiError = "none"


\* C21: a transition of the room to disconnected makes at most one error report to
\* the parent, and once the room effect's cleanup has run (the component is
\* unmounted) no ConnectionStateChanged listener of it is left on the room.
C21_OneErrorReportNoListenerLeft ==
    /\ errorReports <= 1
    /\ ~mounted => stateListeners = 0

\* C22: when the payload of a stream cannot be read, the handler changes neither
\* the committed list, the in-flight map nor the persistence buffer, the relay goes
\* on (it stays mounted, connected, with its handler, and reports no error), and
\* the other streams it is handling stay in hand.
C22_UnreadablePayloadIsDropped ==
    [][\A e \in streams :
          (ProcessStream(e) /\ ~e.readable)
          => /\ UNCHANGED <<transcriptions, currentTranscriptions, transcriptionData,
                            renderPending, saveRequests>>
             /\ UNCHANGED <<mounted, roomState, handlerRegistered, uiError,
                            errorReports>>
             /\ streams' = streams \ {e}]_vars

\* C22 witness: the first stream was the unreadable final of utterance 1 and left
\* no line; the second stream, delivered after it, was committed
C22_Witness ==
    /\ delivered = 2 /\ streams = {} /\ dropped = {}
    /\ uttPhase[1] = "closed"
    /\ currentTranscriptions = {}
    /\ Len(transcriptions) = 1 /\ transcriptions[1].text = 2
    /\ Len(transcriptionData) = 1 /\ transcriptionData[1].text = 2

\* C23: a readable message without lk.transcribed_track_id leaves the committed
\* list, the in-flight map and the persistence buffer unchanged, and no
\* transcription callback runs (no state update of LivekitVoiceRoom is pending
\* because of it).
C23_UnrelatedMessageIsIgnored ==
    [][\A e \in streams :
          (ProcessStream(e) /\ e.readable /\ ~IsTranscription(e))
          => UNCHANGED <<transcriptions, currentTranscriptions, transcriptionData,
                         renderPending, saveRequests>>]_vars

\* C23 witness: the only stream delivered was an unrelated message, and it has
\* been handled
C23_Witness ==
    /\ delivered = 1 /\ streams = {} /\ dropped = {}
    /\ \A u \in Utterances : uttPhase[u] = "idle"
    /\ transcriptions = <<>> /\ currentTranscriptions = {}
    /\ transcriptionData = <<>> /\ ~renderPending

C26_DisplayOrderIsArrivalOrder ==
    LET shown == SelectSeq(DisplayedCommitted, LAMBDA m : m.id[1] # "test")
    IN  \A i, j \in DOMAIN shown : i < j => shown[i].text < shown[j].text

\* C13: when the flush made at teardown has failed and the call is over, the UI is
\* in the ended-call state: the component is unmounted, the room is disconnected
\* and no error is shown.
C13_FailedFlushLeavesUiDisconnected ==
    ( /\ \E i \in DOMAIN saveRequests :
             saveRequests[i].atTeardown /\ saveRequests[i].result = "failed"
      /\ roomState = "disconnected" )
    => ~mounted /\ uiError = "none"

\* C17: the in-flight map holds at most one entry per utterance.
C17_OneInFlightEntryPerUtterance ==
    \A u \in Utterances :
        Cardinality({m \in currentTranscriptions : m.utt = u}) <= 1

\* C18 as stated: the persistence buffer holds the same sequence of (text, speaker)
\* lines as the committed list.
C18_BufferEqualsCommittedList ==
    /\ Len(transcriptionData) = Len(transcriptions)
    /\ \A i \in DOMAIN transcriptionData :
           /\ transcriptionData[i].text = transcriptions[i].text
           /\ transcriptionData[i].isUser = transcriptions[i].isUser

\* C18 as amended: the persistence buffer holds the same sequence of (text, speaker)
\* lines as the committed list without the lines of the Add Test Message button.
C18_BufferEqualsCommittedTransportLines ==
    LET fromTransport == SelectSeq(transcriptions, LAMBDA m : m.id[1] # "test")
    IN  /\ Len(transcriptionData) = Len(fromTransport)
        /\ \A i \in DOMAIN transcriptionData :
               /\ transcriptionData[i].text = fromTransport[i].text
               /\ transcriptionData[i].isUser = fromTransport[i].isUser

\* C18 witness: lines of both speakers are committed, with a test line among them
C18_Witness ==
    /\ TestLines # {}
    /\ \E i \in DOMAIN transcriptionData : transcriptionData[i].isUser
    /\ \E i \in DOMAIN transcriptionData : ~transcriptionData[i].isUser

\* C19: the handler, run for a readable stream that has the track attribute and no
\* lk.is_final attribute, leaves the committed list as it is and holds the line in
\* the in-flight map.
C19_NoFinalFlagIsInterim ==
    [][\A e \in streams :
          ( /\ ProcessStream(e)
            /\ mounted /\ e.readable /\ e.track /\ e.fin = "none" )
          => /\ transcriptions' = transcriptions
             /\ \E m \in currentTranscriptions' : m.text = e.n /\ ~m.isFinal]_vars

\* C19 witness: a line without the flag is held in flight while the committed list
\* is empty
C19_Witness ==
    /\ transcriptions = <<>>
    /\ delivered > 0
    /\ \E m \in currentTranscriptions : ~m.isFinal


\* =========================================================================
\*  PART 2 - client-side session creation
\* =========================================================================

\* a stored token: the number of dot-separated parts, whether the payload decodes
\* (atob, JSON.parse, and reading .exp of the result), and its exp claim
Credential(parts, decodable, hasExp, exp) ==
    [parts |-> parts, decodable |-> decodable, hasExp |-> hasExp, exp |-> exp]

\* localStorage.getItem(...) === null
NoToken == Credential(0, FALSE, FALSE, 0)

Credentials ==
    { Credential(2, TRUE, FALSE, 0),       \* not three parts
      Credential(3, FALSE, FALSE, 0),      \* payload does not decode
      Credential(3, TRUE, FALSE, 0) }      \* no exp claim
    \cup { Credential(3, TRUE, TRUE, x) : x \in 0..(MaxNow + 1) }

\* the token a migration from the legacy key would bring
LegacyToken == Credential(3, TRUE, TRUE, MaxNow + 1)

\* getTokenInfo: access_token first, then the legacy auth_token
TokenOf(st) == IF st.access # NoToken THEN st.access ELSE st.auth

\* getTokenInfo: a token found under auth_token only is moved to access_token
MigratedStorage(st) ==
    IF st.access = NoToken /\ st.auth # NoToken
    THEN [access |-> st.auth, auth |-> NoToken]
    ELSE st

\* getTokenInfo().isValid
TokenIsValid(tok) == tok # NoToken /\ tok.parts = 3 /\ tok.decodable

\* getTokenInfo().isExpired: payload.exp && payload.exp < now
TokenIsExpired(tok, now) ==
    TokenIsValid(tok) /\ tok.hasExp /\ tok.exp # 0 /\ tok.exp < now

\* isAuthenticated(): tokenInfo.isValid && !tokenInfo.isExpired
IsAuthenticated(st, now) ==
    TokenIsValid(TokenOf(st)) /\ ~TokenIsExpired(TokenOf(st), now)

\* conversation ids
AbsentId == <<"absent", 0>>
SuppliedIds == {<<"conv", 0>>}
CreatedId(k) == <<"conv", k>>
FallbackId(k) == <<"uuid", k>>

NoFlow == [by |-> "none", pc |-> "idle", supplied |-> AbsentId, target |-> AbsentId,
           created |-> 0]

\* a room named after the session start, not after the conversation
ClientRoomName_PerStart(conversationId) == <<"voice-session-", <<"start", starts>>>>

\* `voice-session-${conversationId}` in startVoiceSession and onConnectButtonClicked
ClientRoomName(conversationId) == RoomNameOf(conversationId)

SessionInit ==
    /\ nowSec = 1
    /\ storage \in [access : Credentials \cup {NoToken}, auth : {NoToken, LegacyToken}]
    /\ userAuthenticated = FALSE
    /\ flow = NoFlow
    /\ starts = 0
    /\ nCreated = 0
    /\ nFallback = 0
    /\ sessionCalls = <<>>
    /\ clientRooms = {}
    /\ lastError = "none"
    /\ hookSessionId = NullId /\ livekitToken = "null" /\ intervalRef = FALSE
    /\ liveTimers = 0 /\ endCalls = <<>> /\ ends = 0
    /\ messagesTable = <<>> /\ voiceSessionsTable = {} /\ lastSave = NoSave
    /\ isCreatingConversation = FALSE /\ viewState = "main"
    /\ activeConversation = NullId /\ committedFlag = FALSE
    /\ committedView = "main" /\ pendingCreates = 0 /\ createdCount = 0
    /\ clicks = 0 /\ ignoredClicks = 0
    /\ connectionDetails = FALSE /\ voiceSessionMessages = <<>>
    /\ showTextMessages = FALSE /\ voiceSessions = 0
    \* the relay is not mounted
    /\ roomState = "disconnected" /\ handlerRegistered = FALSE /\ mounted = FALSE
    /\ showTranscriptions = TRUE /\ streams = {} /\ delivered = 0 /\ dropped = {}
    /\ uttPhase = <<>> /\ transcriptions = <<>> /\ currentTranscriptions = {}
    /\ transcriptionData = <<>> /\ cleanupData = <<>> /\ renderPending = FALSE
    /\ saveRequests = <<>>
    /\ uiError = "none"
    /\ endedBy = "none"
    /\ stateListeners = 0 /\ errorReports = 0
    /\ voiceSessionSet = FALSE /\ joins = 0 /\ retries = 0 /\ staleRooms = <<>>
    \* the token routes answer no request
    /\ clock = 0 /\ envConfigured = TRUE /\ issued = <<>> /\ answers = <<>>


\* a second passes in the browser
Tick ==
    /\ SessionFrame
    /\ nowSec < MaxNow
    /\ nowSec' = nowSec + 1
    /\ UNCHANGED <<storage, userAuthenticated, flow, starts, nCreated, nFallback,
                   sessionCalls, clientRooms, lastError>>
    /\ UNCHANGED hookVars

\* VoiceChatInterface.checkAuth, on mount and every 30 seconds
CheckAuth ==
    /\ SessionFrame
    /\ userAuthenticated' = IsAuthenticated(storage, nowSec)
    /\ storage' = MigratedStorage(storage)
    /\ UNCHANGED <<nowSec, flow, starts, nCreated, nFallback, sessionCalls,
                   clientRooms, lastError>>
    /\ UNCHANGED hookVars

\* AuthAPI.login with an answer that carries success and token: the
\* access_token of the answer is written under the auth_token key
Login(tok) ==
    /\ SessionFrame
    /\ storage' = [storage EXCEPT !.auth = tok]
    /\ UNCHANGED <<nowSec, userAuthenticated, flow, starts, nCreated, nFallback,
                   sessionCalls, clientRooms, lastError>>
    /\ UNCHANGED hookVars

\* AuthAPI.clearAuthData: removeItem("auth_token") and removeItem("user_data");
\* the access_token key is not touched
ClearAuthData(st) == [st EXCEPT !.auth = NoToken]

\* what POST /logout can come back with: a 2xx, a non-2xx, or a thrown fetch
LogoutAnswers == {"ok", "rejected", "network"}

\* AuthAPI.logout: the token is read from auth_token only; without one the
\* local data is cleared and the call returns, with one the request is sent
\* and the local data is cleared whatever the answer is
Logout(answer) ==
    /\ SessionFrame
    /\ storage.auth = NoToken => answer = "ok"
    /\ storage' = ClearAuthData(storage)
    /\ UNCHANGED <<nowSec, userAuthenticated, flow, starts, nCreated, nFallback,
                   sessionCalls, clientRooms, lastError>>
    /\ UNCHANGED hookVars

\* VoiceSessionAPI.createVoiceSession up to its fetch: the authentication check,
\* then the request is sent; onAuthError is the code the caller shows
BeginCreateVoiceSession(by, supplied, target, created, onAuthError) ==
    LET ok == IsAuthenticated(storage, nowSec)
    IN  /\ sessionCalls' = Append(sessionCalls,
              [by |-> by, conversation_id |-> target, supplied |-> supplied,
               created |-> created, credential |-> TokenOf(storage), at |-> nowSec,
               answer |-> IF ok THEN "pending" ELSE "none",
               result |-> IF ok THEN "pending" ELSE "AUTHENTICATION_REQUIRED",
               details |-> "none"])
        /\ flow' = IF ok THEN [by |-> by, pc |-> "session", supplied |-> supplied,
                               target |-> target, created |-> created]
                   ELSE NoFlow
        /\ lastError' = IF ok THEN lastError ELSE onAuthError
        /\ storage' = MigratedStorage(storage)

\* VoiceSessionAPI.createConversation up to its fetch
BeginCreateConversation(by, supplied) ==
    /\ flow' = [by |-> by, pc |-> "conversation", supplied |-> supplied,
                target |-> AbsentId, created |-> 0]
    /\ storage' = MigratedStorage(storage)
    /\ UNCHANGED <<sessionCalls, lastError>>

\* useVoiceSession.startSession(conversationId), no initialConversationId
HookStartSession(conversationId) ==
    /\ SessionFrame
    /\ flow = NoFlow
    /\ starts < MaxStarts
    /\ starts' = starts + 1
    /\ IF conversationId # AbsentId
       THEN /\ BeginCreateVoiceSession("hook", conversationId, conversationId, 0,
                                       "AUTHENTICATION_REQUIRED")
            /\ UNCHANGED nFallback
       ELSE IF IsAuthenticated(storage, nowSec)
       THEN /\ BeginCreateConversation("hook", AbsentId)
            /\ UNCHANGED nFallback
       ELSE \* createConversation throws, the fallback id is drawn, and
            \* createVoiceSession throws AUTHENTICATION_REQUIRED in turn
            /\ nFallback' = nFallback + 1
            /\ BeginCreateVoiceSession("hook", AbsentId, FallbackId(nFallback + 1), 0,
                                       "AUTHENTICATION_REQUIRED")
    /\ UNCHANGED <<nowSec, userAuthenticated, nCreated, clientRooms>>
    /\ UNCHANGED hookVars

\* VoiceChatInterface.onConnectButtonClicked, conversationId being the prop
VciConnect(conversationId) ==
    /\ SessionFrame
    /\ flow = NoFlow
    /\ starts < MaxStarts
    /\ userAuthenticated
    /\ starts' = starts + 1
    /\ IF conversationId # AbsentId
       THEN BeginCreateVoiceSession("vci", conversationId, conversationId, 0,
                                    "AUTHENTICATION_REQUIRED")
       ELSE IF IsAuthenticated(storage, nowSec)
       THEN BeginCreateConversation("vci", AbsentId)
       ELSE /\ lastError' = "AUTHENTICATION_REQUIRED"
            /\ flow' = NoFlow
            /\ storage' = MigratedStorage(storage)
            /\ UNCHANGED sessionCalls
    /\ UNCHANGED <<nowSec, userAuthenticated, nCreated, nFallback, clientRooms>>
    /\ UNCHANGED hookVars

\* VoiceSessionWithTranscriptions.startVoiceSession, conversationId being the prop
VstStart(conversationId) ==
    /\ SessionFrame
    /\ flow = NoFlow
    /\ starts < MaxStarts
    /\ starts' = starts + 1
    /\ BeginCreateVoiceSession("vst", conversationId, conversationId, 0,
                               "AUTHENTICATION_REQUIRED")
    /\ UNCHANGED <<nowSec, userAuthenticated, nCreated, nFallback, clientRooms>>
    /\ UNCHANGED hookVars

\* the answer to POST /api/v1/conversations/ arrives, and the caller goes on
ConversationResponse(outcome) ==
    /\ SessionFrame
    /\ flow.pc = "conversation"
    /\ IF outcome = "created"
       THEN /\ nCreated' = nCreated + 1
            /\ nFallback' = nFallback
            /\ BeginCreateVoiceSession(flow.by, flow.supplied, CreatedId(nCreated + 1),
                                       1, "AUTHENTICATION_REQUIRED")
       ELSE IF flow.by = "hook"
       THEN \* startSession catches the failure and goes on with a random UUID
            /\ nCreated' = nCreated
            /\ nFallback' = nFallback + 1
            /\ BeginCreateVoiceSession("hook", flow.supplied,
                                       FallbackId(nFallback + 1), 0,
                                       "AUTHENTICATION_REQUIRED")
       ELSE \* onConnectButtonClicked: the error is shown and the start ends
            /\ nCreated' = nCreated
            /\ nFallback' = nFallback
            /\ flow' = NoFlow
            /\ lastError' = IF outcome = "rejected" THEN "CREATE_CONVERSATION_FAILED"
                            ELSE "NETWORK_ERROR"
            /\ UNCHANGED <<storage, sessionCalls>>
    /\ UNCHANGED <<nowSec, userAuthenticated, starts, clientRooms>>
    /\ UNCHANGED hookVars

\* the answers to a createVoiceSession request: 200 with a token, 200 without
\* one, a non-2xx answer whose JSON body has no error_code, one whose body has an
\* error_code, one whose body is not JSON, and no answer (fetch rejects)
SessionOutcomes ==
    {"ok", "ok_no_token", "rejected", "rejected_coded", "rejected_not_json", "network"}

\* createVoiceSession that reports every rejection as CREATE_SESSION_FAILED
SessionErrorCode_IgnoresUpstreamCode(outcome) ==
    CASE outcome \in {"rejected", "rejected_coded"} -> "CREATE_SESSION_FAILED"
      [] outcome \in {"rejected_not_json", "network"} -> "NETWORK_ERROR"
      [] OTHER -> "none"

\* the error code createVoiceSession throws for an answer:
\* data.error_code || 'CREATE_SESSION_FAILED', and NETWORK_ERROR for what
\* response.json() or fetch throws
SessionErrorCode(outcome) ==
    CASE outcome = "rejected"          -> "CREATE_SESSION_FAILED"
      [] outcome = "rejected_coded"    -> "UPSTREAM_CODE"
      [] outcome = "rejected_not_json" -> "NETWORK_ERROR"
      [] outcome = "network"           -> "NETWORK_ERROR"
      [] OTHER                         -> "none"

\* the details of the error createVoiceSession throws: data.details of the
\* upstream body, or { originalError } holding what response.json() or fetch threw
SessionErrorDetails(outcome) ==
    CASE outcome \in {"rejected", "rejected_coded"} -> "upstream"
      [] outcome = "rejected_not_json"               -> "SyntaxError"
      [] outcome = "network"                         -> "TypeError"
      [] OTHER                                       -> "none"

\* the answer to POST /api/v1/voice/session/create arrives
SessionResponse(outcome) ==
    /\ SessionFrame
    /\ flow.pc = "session"
    /\ sessionCalls' =
           [sessionCalls EXCEPT
                ![Len(sessionCalls)].answer = outcome,
                ![Len(sessionCalls)].result =
                    IF outcome \in {"ok", "ok_no_token"} THEN "ok"
                    ELSE SessionErrorCode(outcome),
                ![Len(sessionCalls)].details = SessionErrorDetails(outcome)]
    /\ flow' = NoFlow
    /\ IF outcome = "ok" /\ flow.by \in {"vci", "vst"}
       THEN /\ clientRooms' = clientRooms \cup
                   {[by |-> flow.by, conversation |-> flow.target,
                     roomName |-> ClientRoomName(flow.target)]}
            /\ lastError' = lastError
       ELSE /\ clientRooms' = clientRooms
            /\ lastError' =
                   IF outcome = "ok" THEN lastError
                   ELSE IF outcome = "ok_no_token"
                   THEN (IF flow.by = "hook" THEN lastError ELSE "INVALID_RESPONSE")
                   ELSE SessionErrorCode(outcome)
    /\ IF flow.by = "hook" /\ outcome \in {"ok", "ok_no_token"}
       THEN \* setLivekitInfo(...) and setInterval(updateStatus, 5000)
            /\ livekitToken' = IF outcome = "ok" THEN "token" ELSE "null"
            /\ intervalRef' = TRUE
            /\ liveTimers' = liveTimers + 1
            /\ UNCHANGED <<hookSessionId, endCalls, ends>>
       ELSE UNCHANGED hookVars
    /\ UNCHANGED <<nowSec, storage, userAuthenticated, starts, nCreated, nFallback>>

\* the error code endVoiceSession throws for an answer
EndErrorCode(outcome) ==
    CASE outcome = "rejected"       -> "END_SESSION_FAILED"
      [] outcome = "rejected_coded" -> "UPSTREAM_CODE"
      [] outcome = "network"        -> "NETWORK_ERROR"
      [] OTHER                      -> "none"

\* endSession that asks the backend whether or not a session id is held
EndRequestNeeded_Always(sessionId) == TRUE

\* if (session?.id) in endSession
EndRequestNeeded(sessionId) == sessionId # NullId

\* useVoiceSession.endSession; outcome is the answer to the end request, if one
\* is sent ("rejected" when it is sent for no session id)
HookEndSession(outcome) ==
    /\ SessionFrame
    /\ ends < MaxEnds
    /\ ends' = ends + 1
    /\ intervalRef' = FALSE
    /\ liveTimers' = IF intervalRef THEN liveTimers - 1 ELSE liveTimers
    /\ IF EndRequestNeeded(hookSessionId)
       THEN /\ hookSessionId # NullId \/ outcome = "rejected"
            /\ endCalls' = Append(endCalls, hookSessionId)
            /\ IF outcome = "ok"
               THEN /\ hookSessionId' = NullId
                    /\ livekitToken' = "null"
                    /\ lastError' = lastError
               ELSE \* the throw skips the reset; handleError(err)
                    /\ lastError' = EndErrorCode(outcome)
                    /\ UNCHANGED <<hookSessionId, livekitToken>>
       ELSE /\ outcome = "ok"
            /\ hookSessionId' = NullId
            /\ livekitToken' = "null"
            /\ UNCHANGED <<endCalls, lastError>>
    /\ UNCHANGED <<nowSec, storage, userAuthenticated, flow, starts, nCreated,
                   nFallback, sessionCalls, clientRooms>>

SessionNext ==
    \/ Tick
    \/ CheckAuth
    \/ \E c \in SuppliedIds \cup {AbsentId} : HookStartSession(c)
    \/ \E c \in SuppliedIds \cup {AbsentId} : VciConnect(c)
    \/ \E c \in SuppliedIds : VstStart(c)
    \/ \E outcome \in {"created", "rejected", "network"} :
           ConversationResponse(outcome)
    \/ \E outcome \in SessionOutcomes :
           SessionResponse(outcome)

\* =========================================================================
\*  PART 3 - token routes: POST token, GET connection-details
\* =========================================================================

\* ttl: '1h', in seconds
TokenTtlSeconds == 3600

\* the Authorization header of a request; credential tells what the bearer
\* credential really is, which the routes never look at
AuthHeaders ==
    { [scheme |-> "none",   credential |-> "none"],
      [scheme |-> "Basic",  credential |-> "garbage"],
      [scheme |-> "Bearer", credential |-> "valid"],
      [scheme |-> "Bearer", credential |-> "expired"],
      [scheme |-> "Bearer", credential |-> "garbage"] }

\* body fields of a POST request; NoRoomName, NoParticipantName: the field is missing
NoRoomName == <<"", NullId>>
NoParticipantName == <<"", 0>>
RoomNames == {NoRoomName, RoomNameOf(<<"conv", 1>>), RoomNameOf(<<"conv", 2>>)}
ParticipantNames == {NoParticipantName, <<"user-", 1>>, <<"guest-", 1>>}

\* !authHeader || !authHeader.startsWith('Bearer ') is false
HasBearer(header) == header.scheme = "Bearer"

\* a grant that leaves the room out, so the token is good for every room
VideoGrant_AnyRoom(roomName) ==
    [room |-> NoRoomName, roomJoin |-> TRUE, canPublish |-> TRUE,
     canSubscribe |-> TRUE, canPublishData |-> TRUE]

\* token.addGrant({room: roomName, roomJoin, canPublish, canSubscribe, canPublishData})
VideoGrant(roomName) ==
    [room |-> roomName, roomJoin |-> TRUE, canPublish |-> TRUE,
     canSubscribe |-> TRUE, canPublishData |-> TRUE]

\* new AccessToken(apiKey, apiSecret, {identity, ttl: '1h'}) with its grant, signed
\* at `now` (milliseconds); via, sessionRoom, credential and conversation record
\* the request: the room its answer names, what its bearer credential really is,
\* and the conversation the caller wants the session for
AccessToken(via, identity, roomName, now, header, conversation) ==
    [via |-> via, identity |-> identity, grant |-> VideoGrant(roomName),
     issuedAt |-> now \div 1000,
     expiresAt |-> (now \div 1000) + TokenTtlSeconds,
     sessionRoom |-> roomName, credential |-> header.credential,
     conversation |-> conversation]

TokenInit ==
    /\ clock = 0
    /\ envConfigured \in BOOLEAN
    /\ issued = <<>>
    /\ answers = <<>>
    \* the relay is not mounted
    /\ roomState = "disconnected" /\ handlerRegistered = FALSE /\ mounted = FALSE
    /\ showTranscriptions = TRUE /\ streams = {} /\ delivered = 0 /\ dropped = {}
    /\ uttPhase = <<>> /\ transcriptions = <<>> /\ currentTranscriptions = {}
    /\ transcriptionData = <<>> /\ cleanupData = <<>> /\ renderPending = FALSE
    /\ saveRequests = <<>> /\ uiError = "none" /\ endedBy = "none"
    /\ stateListeners = 0 /\ errorReports = 0
    /\ voiceSessionSet = FALSE /\ joins = 0 /\ retries = 0 /\ staleRooms = <<>>
    \* no session start is made
    /\ nowSec = 1 /\ storage = <<>> /\ userAuthenticated = FALSE /\ flow = <<>>
    /\ starts = 0 /\ nCreated = 0 /\ nFallback = 0 /\ sessionCalls = <<>>
    /\ clientRooms = {} /\ lastError = "none"
    /\ hookSessionId = NullId /\ livekitToken = "null" /\ intervalRef = FALSE
    /\ liveTimers = 0 /\ endCalls = <<>> /\ ends = 0
    /\ messagesTable = <<>> /\ voiceSessionsTable = {} /\ lastSave = NoSave
    /\ isCreatingConversation = FALSE /\ viewState = "main"
    /\ activeConversation = NullId /\ committedFlag = FALSE
    /\ committedView = "main" /\ pendingCreates = 0 /\ createdCount = 0
    /\ clicks = 0 /\ ignoredClicks = 0
    /\ connectionDetails = FALSE /\ voiceSessionMessages = <<>>
    /\ showTextMessages = FALSE /\ voiceSessions = 0


\* the server clock advances by a millisecond
ClockTick ==
    /\ TokenFrame
    /\ clock < MaxClock
    /\ clock' = clock + 1
    /\ UNCHANGED <<envConfigured, issued, answers>>

\* POST token route; bodyOk = FALSE: request.json() throws
PostToken(bodyOk, roomName, participantName, header) ==
    /\ TokenFrame
    /\ Len(answers) < MaxRequests
    /\ IF ~bodyOk
       THEN /\ answers' = Append(answers, [via |-> "POST", status |-> 500])
            /\ issued' = issued
       ELSE IF ~envConfigured
       THEN /\ answers' = Append(answers, [via |-> "POST", status |-> 500])
            /\ issued' = issued
       ELSE IF roomName = NoRoomName \/ participantName = NoParticipantName
       THEN /\ answers' = Append(answers, [via |-> "POST", status |-> 400])
            /\ issued' = issued
       ELSE IF ~HasBearer(header)
       THEN /\ answers' = Append(answers, [via |-> "POST", status |-> 401])
            /\ issued' = issued
       ELSE /\ answers' = Append(answers, [via |-> "POST", status |-> 200])
            /\ issued' = Append(issued, AccessToken("POST", participantName, roomName,
                                                    clock, header,
                                                    ConversationIdOf(roomName)))
    /\ UNCHANGED <<clock, envConfigured>>

\* `voice-session-${Date.now()}` and `user-${Date.now()}`
GeneratedRoomName(now) == <<"voice-session-", <<"time", now>>>>
GeneratedParticipantName(now) == <<"user-", now>>

\* GET connection-details route; the caller wants a session for `conversation`,
\* which the route has no input for
GetConnectionDetails(header, conversation) ==
    /\ TokenFrame
    /\ Len(answers) < MaxRequests
    /\ IF ~envConfigured
       THEN /\ answers' = Append(answers, [via |-> "GET", status |-> 500])
            /\ issued' = issued
       ELSE IF ~HasBearer(header)
       THEN /\ answers' = Append(answers, [via |-> "GET", status |-> 401])
            /\ issued' = issued
       ELSE /\ answers' = Append(answers, [via |-> "GET", status |-> 200])
            /\ issued' = Append(issued,
                                AccessToken("GET", GeneratedParticipantName(clock),
                                            GeneratedRoomName(clock), clock, header,
                                            conversation))
    /\ UNCHANGED <<clock, envConfigured>>

TokenNext ==
    \/ ClockTick
    \/ \E bodyOk \in BOOLEAN, roomName \in RoomNames,
          participantName \in ParticipantNames, header \in AuthHeaders :
            PostToken(bodyOk, roomName, participantName, header)
    \/ \E header \in AuthHeaders, c \in SuppliedIds : GetConnectionDetails(header, c)

\* ---------------------------------------------------------------- claims, tokens

\* C7: a token is minted only for a request that carries a valid caller credential.
C7_TokenOnlyForValidCredential ==
    \A i \in DOMAIN issued : issued[i].credential = "valid"

\* C8: every minted token grants join, publish, subscribe and data-publish on the
\* one room of its session and on no other, and expires at most one hour after
\* it was issued.
C8_GrantsOneRoomForOneHour ==
    \A i \in DOMAIN issued :
        LET t == issued[i]
        IN  /\ t.grant.roomJoin /\ t.grant.canPublish
            /\ t.grant.canSubscribe /\ t.grant.canPublishData
            /\ t.grant.room = t.sessionRoom
            /\ t.grant.room # NoRoomName
            /\ t.expiresAt - t.issuedAt <= 60 * 60

\* C8 witness: both routes have minted a token
C8_Witness ==
    /\ \E i \in DOMAIN issued : issued[i].via = "POST"
    /\ \E i \in DOMAIN issued : issued[i].via = "GET"

\* C9: no two minted tokens carry the same participant identity.
C9_IdentityNeverReused ==
    \A i, j \in DOMAIN issued : i < j => issued[i].identity # issued[j].identity

\* --------------------------------------------------------------- claims, session

\* C5: every session request of a valid caller is for the identifier the caller
\* supplied or, when none was supplied, for the identifier of the one conversation
\* that the start created.
C5_SessionForSuppliedOrCreatedConversation ==
    \A i \in DOMAIN sessionCalls :
        LET c == sessionCalls[i]
        IN  c.result # "AUTHENTICATION_REQUIRED" =>
                IF c.supplied = AbsentId
                THEN /\ c.created = 1
                     /\ \E k \in 1..nCreated : c.conversation_id = CreatedId(k)
                ELSE c.conversation_id = c.supplied /\ c.created = 0

\* C6: a createVoiceSession call made while the stored credential is missing,
\* malformed (not three parts, or a payload that does not decode) or expired (its
\* exp claim is before the time of the call) fails with AUTHENTICATION_REQUIRED.
C6_UnusableCredentialIsRefused ==
    \A i \in DOMAIN sessionCalls :
        LET tok == sessionCalls[i].credential
            now == sessionCalls[i].at
        IN  ( \/ tok = NoToken
              \/ tok.parts # 3
              \/ ~tok.decodable
              \/ tok.hasExp /\ tok.exp < now )
            => sessionCalls[i].result = "AUTHENTICATION_REQUIRED"

C16_RejectionIsCreateSessionFailed ==
    \A i \in DOMAIN sessionCalls :
        sessionCalls[i].answer \in {"rejected", "rejected_coded", "rejected_not_json"}
            => /\ sessionCalls[i].result = "CREATE_SESSION_FAILED"
               /\ sessionCalls[i].details = "upstream"

\* C16 as amended: a createVoiceSession call that the upstream rejected with a JSON
\* body failed with the body's error_code, or with CREATE_SESSION_FAILED when the
\* body has none, and with the body's details; a call rejected with a body that
\* is not JSON failed with NETWORK_ERROR and the parse error as its details.
C16_RejectionCodeFromUpstream ==
    \A i \in DOMAIN sessionCalls :
        LET c == sessionCalls[i]
        IN  /\ c.answer = "rejected"
                => c.result = "CREATE_SESSION_FAILED" /\ c.details = "upstream"
            /\ c.answer = "rejected_coded"
                => c.result = "UPSTREAM_CODE" /\ c.details = "upstream"
            /\ c.answer = "rejected_not_json"
                => c.result = "NETWORK_ERROR" /\ c.details = "SyntaxError"

\* C16 witness: the upstream has rejected one call with an error_code and one
\* call without
C16_Witness ==
    /\ \E i \in DOMAIN sessionCalls : sessionCalls[i].answer = "rejected"
    /\ \E i \in DOMAIN sessionCalls : sessionCalls[i].answer = "rejected_coded"

\* C20: a call of endSession made while the hook holds the token of a started
\* session sends an end-session request to the backend.
C20_EndSessionEndsBackendSession ==
    [][( /\ \E outcome \in {"ok", "rejected", "rejected_coded", "network"} :
                HookEndSession(outcome)
         /\ livekitToken # "null" )
       => Len(endCalls') = Len(endCalls) + 1]_vars

\* C30: whatever startSession and endSession calls are made on one instance of
\* the hook, at most one status-polling timer is running at any time, and none
\* is running once a call of endSession has cleared the polling.
C30_AtMostOnePollingTimer ==
    [][/\ liveTimers' <= 1
       /\ (\E outcome \in {"ok", "rejected", "rejected_coded", "network"} :
               HookEndSession(outcome))
             => liveTimers' = 0]_vars

SpecRelay ==
    /\ RelayInit
    /\ [][RelayNext]_vars

SpecToken ==
    /\ TokenInit
    /\ [][TokenNext]_vars

SpecSession ==
    /\ SessionInit
    /\ [][SessionNext]_vars

\* the browser's token storage under checkAuth, login and logout
LogoutNext ==
    \/ Tick
    \/ CheckAuth
    \/ \E tok \in Credentials : Login(tok)
    \/ \E answer \in LogoutAnswers : Logout(answer)

SpecLogout ==
    /\ SessionInit
    /\ [][LogoutNext]_vars

\* C28: once AuthAPI.logout() has returned, whatever the server answered, no
\* credential is left in local storage and isAuthenticated() is false, also
\* for a token that was moved from auth_token to access_token
C28_LogoutLeavesNoCredential ==
    [][(\E answer \in LogoutAnswers : Logout(answer))
          => /\ storage'.access = NoToken
             /\ storage'.auth = NoToken
             /\ ~IsAuthenticated(storage', nowSec')]_vars

\* the Authorization header getAuthHeaders() builds for a signed-in user
SignedInHeader == [scheme |-> "Bearer", credential |-> "valid"]

\* a signed-in browser whose token is still under the legacy key, and a
\* configured server
RoomsInit ==
    /\ nowSec = 1
    /\ storage = [access |-> NoToken, auth |-> LegacyToken]
    /\ userAuthenticated = FALSE
    /\ flow = NoFlow
    /\ starts = 0
    /\ nCreated = 0
    /\ nFallback = 0
    /\ sessionCalls = <<>>
    /\ clientRooms = {}
    /\ lastError = "none"
    /\ hookSessionId = NullId /\ livekitToken = "null" /\ intervalRef = FALSE
    /\ liveTimers = 0 /\ endCalls = <<>> /\ ends = 0
    /\ messagesTable = <<>> /\ voiceSessionsTable = {} /\ lastSave = NoSave
    /\ isCreatingConversation = FALSE /\ viewState = "main"
    /\ activeConversation = NullId /\ committedFlag = FALSE
    /\ committedView = "main" /\ pendingCreates = 0 /\ createdCount = 0
    /\ clicks = 0 /\ ignoredClicks = 0
    /\ connectionDetails = FALSE /\ voiceSessionMessages = <<>>
    /\ showTextMessages = FALSE /\ voiceSessions = 0
    /\ roomState = "disconnected" /\ handlerRegistered = FALSE /\ mounted = FALSE
    /\ showTranscriptions = TRUE /\ streams = {} /\ delivered = 0 /\ dropped = {}
    /\ uttPhase = <<>> /\ transcriptions = <<>> /\ currentTranscriptions = {}
    /\ transcriptionData = <<>> /\ cleanupData = <<>> /\ renderPending = FALSE
    /\ saveRequests = <<>> /\ uiError = "none" /\ endedBy = "none"
    /\ stateListeners = 0 /\ errorReports = 0
    /\ voiceSessionSet = FALSE /\ joins = 0 /\ retries = 0 /\ staleRooms = <<>>
    /\ clock = 0 /\ envConfigured = TRUE /\ issued = <<>> /\ answers = <<>>

\* session starts by the two components, beside the GET connection-details route
RoomsNext ==
    \/ CheckAuth
    \/ \E c \in SuppliedIds \cup {AbsentId} : VciConnect(c)
    \/ \E c \in SuppliedIds : VstStart(c)
    \/ \E outcome \in {"created", "rejected", "network"} :
           ConversationResponse(outcome)
    \/ \E outcome \in SessionOutcomes :
           SessionResponse(outcome)
    \/ ClockTick
    \/ \E c \in SuppliedIds : GetConnectionDetails(SignedInHeader, c)

SpecRooms ==
    /\ RoomsInit
    /\ [][RoomsNext]_vars

\* a signed-in browser that uses the useVoiceSession hook
HookInit ==
    /\ nowSec = 1
    /\ storage = [access |-> LegacyToken, auth |-> NoToken]
    /\ userAuthenticated = FALSE
    /\ flow = NoFlow
    /\ starts = 0
    /\ nCreated = 0
    /\ nFallback = 0
    /\ sessionCalls = <<>>
    /\ clientRooms = {}
    /\ lastError = "none"
    /\ hookSessionId = NullId /\ livekitToken = "null" /\ intervalRef = FALSE
    /\ liveTimers = 0 /\ endCalls = <<>> /\ ends = 0
    /\ messagesTable = <<>> /\ voiceSessionsTable = {} /\ lastSave = NoSave
    /\ isCreatingConversation = FALSE /\ viewState = "main"
    /\ activeConversation = NullId /\ committedFlag = FALSE
    /\ committedView = "main" /\ pendingCreates = 0 /\ createdCount = 0
    /\ clicks = 0 /\ ignoredClicks = 0
    /\ connectionDetails = FALSE /\ voiceSessionMessages = <<>>
    /\ showTextMessages = FALSE /\ voiceSessions = 0
    /\ roomState = "disconnected" /\ handlerRegistered = FALSE /\ mounted = FALSE
    /\ showTranscriptions = TRUE /\ streams = {} /\ delivered = 0 /\ dropped = {}
    /\ uttPhase = <<>> /\ transcriptions = <<>> /\ currentTranscriptions = {}
    /\ transcriptionData = <<>> /\ cleanupData = <<>> /\ renderPending = FALSE
    /\ saveRequests = <<>> /\ uiError = "none" /\ endedBy = "none"
    /\ stateListeners = 0 /\ errorReports = 0
    /\ voiceSessionSet = FALSE /\ joins = 0 /\ retries = 0 /\ staleRooms = <<>>
    /\ clock = 0 /\ envConfigured = TRUE /\ issued = <<>> /\ answers = <<>>

\* starts and ends of a session through the hook
HookNext ==
    \/ \E c \in SuppliedIds \cup {AbsentId} : HookStartSession(c)
    \/ \E outcome \in {"created", "rejected", "network"} :
           ConversationResponse(outcome)
    \/ \E outcome \in SessionOutcomes :
           SessionResponse(outcome)
    \/ \E outcome \in {"ok", "rejected", "rejected_coded", "network"} :
           HookEndSession(outcome)

SpecHook ==
    /\ HookInit
    /\ [][HookNext]_vars

\* the transcription streams of a call, up to the moment it ends
StreamsNext ==
    \/ RoomConnected
    \/ \E u \in Utterances, shape \in TranscriptionShapes : DeliverStream(u, shape)
    \/ \E e \in streams : ProcessStream(e)
    \/ CommitRender

SpecStreams ==
    /\ RelayInit
    /\ [][StreamsNext]_vars

\* a call with errors of the connection and presses of Try Again
RetryNext ==
    \/ RoomConnected
    \/ ToggleTranscriptions
    \/ CommitRender
    \/ ConnectionError
    \/ TryAgain
    \/ EndSession
    \/ RoomClosed
    \/ RoomDisconnected
    \/ \E i \in 1..MaxRetries : StaleRoomClosed(i)

SpecRetry ==
    /\ RelayInit
    /\ [][RetryNext]_vars

\* text streams of every shape arriving during a call
MessagesNext ==
    \/ RoomConnected
    \/ \E u \in Utterances, shape \in StreamShapes : DeliverStream(u, shape)
    \/ \E e \in streams : ProcessStream(e)
    \/ CommitRender

SpecMessages ==
    /\ RelayInit
    /\ [][MessagesNext]_vars

\* a call of transcriptions, ended by the user or by the remote side
FlushNext ==
    \/ RoomConnected
    \/ \E u \in Utterances, shape \in TranscriptionShapes : DeliverStream(u, shape)
    \/ \E e \in streams : ProcessStream(e)
    \/ CommitRender
    \/ EndSession
    \/ RoomDisconnected

SpecFlush ==
    /\ RelayInit
    /\ [][FlushNext]_vars

\* a call of transcriptions during which the Add Test Message button is used
DebugNext ==
    \/ RoomConnected
    \/ \E u \in Utterances, shape \in TranscriptionShapes : DeliverStream(u, shape)
    \/ \E e \in streams : ProcessStream(e)
    \/ CommitRender
    \/ \E isUser \in BOOLEAN : AddTestTranscription(isUser)
    \/ EndSession

SpecDebug ==
    /\ RelayInit
    /\ [][DebugNext]_vars

\* a call of transcriptions, and the answers to its save requests
TeardownNext ==
    \/ RoomConnected
    \/ \E u \in Utterances, shape \in TranscriptionShapes : DeliverStream(u, shape)
    \/ \E e \in streams : ProcessStream(e)
    \/ CommitRender
    \/ \E i \in 1..MaxEvents, outcome \in {"saved", "failed"} : SaveSettles(i, outcome)
    \/ EndSession
    \/ RoomClosed
    \/ RoomDisconnected

SpecTeardown ==
    /\ RelayInit
    /\ [][TeardownNext]_vars

\* ---------------------------------------------------------------------------
\* PART 4: the conversation store (tables public.messages and
\* public.voice_sessions) and the flush of a call's transcript into it
\* ---------------------------------------------------------------------------

MaxLines == 2        \* lines in one flushed transcript
MaxRows == 2         \* messages sent from the chat page
MaxSessionRows == 4  \* ids of voice_sessions rows

StoreConversations == {<<"conv", 1>>, <<"conv", 2>>}
Contents == {1, 2}

\* role of a transcript line: item.isUser ? 'user' : 'assistant'
LineRoles == {"user", "assistant"}

\* the transcripts the save effect can hand over: at least one line
TranscriptLines ==
    UNION {[1..n -> [role : LineRoles, content : Contents]] : n \in 1..MaxLines}

\* messages.role CHECK (role IN ('user', 'assistant', 'system'))
MessageRoles == {"user", "assistant", "system"}

\* messages.message_type CHECK (message_type IN ('text', 'voice'))
MessageTypes == {"text", "voice"}

\* the CHECK constraints of public.messages
MessagesCheck(row) ==
    /\ row.role \in MessageRoles
    /\ row.message_type \in MessageTypes

\* voice_sessions.status CHECK (status IN ('active', 'inactive', 'error'))
VoiceSessionStatuses == {"active", "inactive", "error"}

VoiceSessionsCheck_Unchecked(row) == TRUE

\* the CHECK constraint of public.voice_sessions
VoiceSessionsCheck(row) == row.status \in VoiceSessionStatuses

\* the statuses a writer may try to store
StatusCandidates == {"pending", "active", "inactive", "ended", "error", "expired"}

SessionRowIds == 1..MaxSessionRows

\* saveVoiceTranscription: formattedMessages (the timestamp travels in metadata)
FormatMessages(messages) ==
    [i \in DOMAIN messages |->
        [role |-> messages[i].role,
         content |-> messages[i].content,
         message_type |-> "voice_transcription",
         source |-> "livekit_transcription"]]

\* POST .../messages/batch: the rows are written as received, all or none
BatchInsert(table, conversationId, formatted) ==
    LET rows == [i \in DOMAIN formatted |->
                    [conversation_id |-> conversationId,
                     role |-> formatted[i].role,
                     content |-> formatted[i].content,
                     message_type |-> formatted[i].message_type]]
    IN  IF \A i \in DOMAIN rows : MessagesCheck(rows[i])
        THEN table \o rows
        ELSE table

\* GET .../conversations/{id}/messages: the conversation's rows, oldest first
MessagesOf(table, conversationId) ==
    SelectSeq(table, LAMBDA row : row.conversation_id = conversationId)

\* result of saveVoiceTranscription: true, or the code of the error thrown
SaveResult(authenticated, answer, stored) ==
    IF ~authenticated THEN "AUTHENTICATION_REQUIRED"
    ELSE IF answer = "network" THEN "NETWORK_ERROR"
    ELSE IF stored THEN "true"
    ELSE IF answer = "handled_coded" THEN "upstream"
    ELSE "SAVE_TRANSCRIPTION_FAILED"

\* VoiceSessionAPI.saveVoiceTranscription(conversationId, messages)
SaveVoiceTranscription(conversationId, messages, answer) ==
    /\ StoreFrame
    /\ LET authenticated == IsAuthenticated(storage, nowSec)
           reaches == authenticated /\ answer # "network"
           table == IF reaches
                    THEN BatchInsert(messagesTable, conversationId,
                                     FormatMessages(messages))
                    ELSE messagesTable
       IN  /\ messagesTable' = table
           /\ lastSave' = [conversationId |-> conversationId,
                           messages |-> messages,
                           result |-> SaveResult(authenticated, answer,
                                                 reaches /\ table # messagesTable)]
    /\ UNCHANGED voiceSessionsTable

\* handleSendMessage of the chat page: a text message of the user
SendMessage(conversationId, content) ==
    /\ StoreFrame
    /\ Len(messagesTable) < MaxRows
    /\ storage.access # NoToken
    /\ LET row == [conversation_id |-> conversationId, role |-> "user",
                   content |-> content, message_type |-> "text"]
       IN  /\ MessagesCheck(row)
           /\ messagesTable' = Append(messagesTable, row)
    /\ UNCHANGED <<voiceSessionsTable, lastSave>>

\* INSERT INTO public.voice_sessions (id is the primary key)
InsertVoiceSession(id, status) ==
    /\ StoreFrame
    /\ \A row \in voiceSessionsTable : row.id # id
    /\ VoiceSessionsCheck([id |-> id, status |-> status])
    /\ voiceSessionsTable' = voiceSessionsTable \cup {[id |-> id, status |-> status]}
    /\ UNCHANGED <<messagesTable, lastSave>>

\* UPDATE public.voice_sessions SET status = ... WHERE id = ...
UpdateVoiceSession(id, status) ==
    /\ StoreFrame
    /\ \E row \in voiceSessionsTable : row.id = id
    /\ VoiceSessionsCheck([id |-> id, status |-> status])
    /\ voiceSessionsTable' =
           {row \in voiceSessionsTable : row.id # id}
               \cup {[id |-> id, status |-> status]}
    /\ UNCHANGED <<messagesTable, lastSave>>

\* DELETE FROM public.voice_sessions WHERE id = ...
DeleteVoiceSession(id) ==
    /\ StoreFrame
    /\ \E row \in voiceSessionsTable : row.id = id
    /\ voiceSessionsTable' = {row \in voiceSessionsTable : row.id # id}
    /\ UNCHANGED <<messagesTable, lastSave>>

\* C14: every transcript that saveVoiceTranscription handed to the store is
\* afterwards found in the message list of its conversation: as many messages,
\* in the same order, with the role and content of each line and
\* message_type voice_transcription.
C14_FlushedTranscriptIsRetrievable ==
    lastSave.result \notin {"none", "AUTHENTICATION_REQUIRED", "NETWORK_ERROR"} =>
        LET list == MessagesOf(messagesTable, lastSave.conversationId)
            n == Len(lastSave.messages)
        IN  \E offset \in 0..Len(list) :
                /\ offset + n <= Len(list)
                /\ \A i \in 1..n :
                       /\ list[offset + i].role = lastSave.messages[i].role
                       /\ list[offset + i].content = lastSave.messages[i].content
                       /\ list[offset + i].message_type = "voice_transcription"

StoreInit ==
    /\ messagesTable = <<>> /\ voiceSessionsTable = {} /\ lastSave = NoSave
    /\ isCreatingConversation = FALSE /\ viewState = "main"
    /\ activeConversation = NullId /\ committedFlag = FALSE
    /\ committedView = "main" /\ pendingCreates = 0 /\ createdCount = 0
    /\ clicks = 0 /\ ignoredClicks = 0
    /\ connectionDetails = FALSE /\ voiceSessionMessages = <<>>
    /\ showTextMessages = FALSE /\ voiceSessions = 0
    /\ nowSec = 1
    /\ storage \in {[access |-> LegacyToken, auth |-> NoToken],
                    [access |-> NoToken, auth |-> NoToken]}
    /\ userAuthenticated = FALSE
    /\ flow = NoFlow
    /\ starts = 0
    /\ nCreated = 0
    /\ nFallback = 0
    /\ sessionCalls = <<>>
    /\ clientRooms = {}
    /\ lastError = "none"
    /\ hookSessionId = NullId /\ livekitToken = "null" /\ intervalRef = FALSE
    /\ liveTimers = 0 /\ endCalls = <<>> /\ ends = 0
    /\ roomState = "disconnected" /\ handlerRegistered = FALSE /\ mounted = FALSE
    /\ showTranscriptions = TRUE /\ streams = {} /\ delivered = 0 /\ dropped = {}
    /\ uttPhase = <<>> /\ transcriptions = <<>> /\ currentTranscriptions = {}
    /\ transcriptionData = <<>> /\ cleanupData = <<>> /\ renderPending = FALSE
    /\ saveRequests = <<>> /\ uiError = "none" /\ endedBy = "none"
    /\ stateListeners = 0 /\ errorReports = 0
    /\ voiceSessionSet = FALSE /\ joins = 0 /\ retries = 0 /\ staleRooms = <<>>
    /\ clock = 0 /\ envConfigured = TRUE /\ issued = <<>> /\ answers = <<>>

\* messages written from the chat page and transcripts flushed after a call
StoreNext ==
    \/ \E c \in StoreConversations, messages \in TranscriptLines,
          answer \in {"handled", "handled_coded", "network"} :
           SaveVoiceTranscription(c, messages, answer)
    \/ \E c \in StoreConversations, content \in Contents : SendMessage(c, content)

SpecStore ==
    /\ StoreInit
    /\ [][StoreNext]_vars

\* writes to the table of voice sessions
RegistryNext ==
    \/ \E id \in SessionRowIds, status \in StatusCandidates :
           InsertVoiceSession(id, status)
    \/ \E id \in SessionRowIds, status \in StatusCandidates :
           UpdateVoiceSession(id, status)
    \/ \E id \in SessionRowIds : DeleteVoiceSession(id)

SpecRegistry ==
    /\ StoreInit
    /\ [][RegistryNext]_vars


\* ---------------------------------------------------------------------------
\* PART 5: the MedicalChatbot page and its start of a new conversation
\* ---------------------------------------------------------------------------

\* a test of the flag that never finds a creation under way
AlreadyCreating_Never(flag) == FALSE

\* if (isCreatingConversation) return: the flag of the render the handler is of
AlreadyCreating(flag) == flag

\* a button of the starting page calls handleStartNewConversation; the state it
\* sets before its first await is committed before the click event is over
HandleStartNewConversation ==
    /\ PageFrame
    /\ committedView = "main"
    /\ clicks < MaxClicks
    /\ clicks' = clicks + 1
    /\ IF AlreadyCreating(committedFlag)
       THEN /\ ignoredClicks' = ignoredClicks + 1
            /\ UNCHANGED <<isCreatingConversation, committedFlag, pendingCreates>>
       ELSE /\ isCreatingConversation' = TRUE
            /\ committedFlag' = TRUE
            /\ pendingCreates' = pendingCreates + 1
            /\ UNCHANGED ignoredClicks
    /\ UNCHANGED <<viewState, activeConversation, committedView, createdCount>>

\* VoiceSessionAPI.createConversation settles: the rest of the try, or the catch,
\* then the finally; the state set here is committed by a later render
CreateConversationSettles(outcome) ==
    /\ PageFrame
    /\ pendingCreates > 0
    /\ pendingCreates' = pendingCreates - 1
    /\ IF outcome = "created"
       THEN /\ createdCount' = createdCount + 1
            /\ activeConversation' = CreatedId(createdCount + 1)
            /\ viewState' = "conversation"
       ELSE UNCHANGED <<createdCount, activeConversation, viewState>>
    /\ isCreatingConversation' = FALSE
    /\ UNCHANGED <<committedFlag, committedView, clicks, ignoredClicks>>

\* React commits a render of the page
PageRender ==
    /\ PageFrame
    /\ <<committedFlag, committedView>> # <<isCreatingConversation, viewState>>
    /\ committedFlag' = isCreatingConversation
    /\ committedView' = viewState
    /\ UNCHANGED <<isCreatingConversation, viewState, activeConversation,
                   pendingCreates, createdCount, clicks, ignoredClicks>>

\* handleReturnToMain, from the conversation view
HandleReturnToMain ==
    /\ PageFrame
    /\ committedView = "conversation"
    /\ viewState' = "main"
    /\ committedView' = "main"
    /\ activeConversation' = NullId
    /\ committedFlag' = isCreatingConversation
    /\ UNCHANGED <<isCreatingConversation, pendingCreates, createdCount, clicks,
                   ignoredClicks>>

PageInit ==
    /\ isCreatingConversation = FALSE /\ viewState = "main"
    /\ activeConversation = NullId /\ committedFlag = FALSE
    /\ committedView = "main" /\ pendingCreates = 0 /\ createdCount = 0
    /\ clicks = 0 /\ ignoredClicks = 0
    /\ connectionDetails = FALSE /\ voiceSessionMessages = <<>>
    /\ showTextMessages = FALSE /\ voiceSessions = 0
    /\ messagesTable = <<>> /\ voiceSessionsTable = {} /\ lastSave = NoSave
    /\ nowSec = 1
    /\ storage = [access |-> LegacyToken, auth |-> NoToken]
    /\ userAuthenticated = FALSE
    /\ flow = NoFlow
    /\ starts = 0
    /\ nCreated = 0
    /\ nFallback = 0
    /\ sessionCalls = <<>>
    /\ clientRooms = {}
    /\ lastError = "none"
    /\ hookSessionId = NullId /\ livekitToken = "null" /\ intervalRef = FALSE
    /\ liveTimers = 0 /\ endCalls = <<>> /\ ends = 0
    /\ roomState = "disconnected" /\ handlerRegistered = FALSE /\ mounted = FALSE
    /\ showTranscriptions = TRUE /\ streams = {} /\ delivered = 0 /\ dropped = {}
    /\ uttPhase = <<>> /\ transcriptions = <<>> /\ currentTranscriptions = {}
    /\ transcriptionData = <<>> /\ cleanupData = <<>> /\ renderPending = FALSE
    /\ saveRequests = <<>> /\ uiError = "none" /\ endedBy = "none"
    /\ stateListeners = 0 /\ errorReports = 0
    /\ voiceSessionSet = FALSE /\ joins = 0 /\ retries = 0 /\ staleRooms = <<>>
    /\ clock = 0 /\ envConfigured = TRUE /\ issued = <<>> /\ answers = <<>>

PageNext ==
    \/ HandleStartNewConversation
    \/ \E outcome \in {"created", "failed"} : CreateConversationSettles(outcome)
    \/ PageRender
    \/ HandleReturnToMain

SpecPage ==
    /\ PageInit
    /\ [][PageNext]_vars


\* =========================================================================
\*  PART 6 - VoiceChatInterface: the transcript shown after a voice session
\* =========================================================================

MaxVoiceSessions == 3   \* voice sessions connected on one component
MaxTranscript == 3      \* lines the component receives in all

\* if (showTextMessages && voiceSessionMessages.length > 0): the transcript
\* view is rendered (the room view, tested first, is not)
TranscriptShown ==
    ~connectionDetails /\ showTextMessages /\ Len(voiceSessionMessages) > 0

\* onConnectButtonClicked succeeds: updateConnectionDetails({...}); the Start
\* button is on the start view only
VoiceSessionConnected ==
    /\ TranscriptFrame
    /\ ~connectionDetails /\ ~TranscriptShown
    /\ voiceSessions < MaxVoiceSessions
    /\ connectionDetails' = TRUE
    /\ voiceSessions' = voiceSessions + 1
    /\ UNCHANGED <<voiceSessionMessages, showTextMessages>>

\* VoiceChatInterface.handleTranscription, called by SimpleVoiceAssistant for a
\* final line
VciHandleTranscription(role) ==
    /\ TranscriptFrame
    /\ connectionDetails
    /\ Len(voiceSessionMessages) < MaxTranscript
    /\ voiceSessionMessages' =
           Append(voiceSessionMessages, [session |-> voiceSessions, role |-> role])
    /\ UNCHANGED <<connectionDetails, showTextMessages, voiceSessions>>

\* handleVoiceSessionEnd, the End button of the control bar
HandleVoiceSessionEnd ==
    /\ TranscriptFrame
    /\ connectionDetails
    /\ connectionDetails' = FALSE
    /\ showTextMessages' = TRUE
    /\ UNCHANGED <<voiceSessionMessages, voiceSessions>>

\* onDisconnected of LiveKitRoom: updateConnectionDetails(undefined)
VoiceRoomDisconnected ==
    /\ TranscriptFrame
    /\ connectionDetails
    /\ connectionDetails' = FALSE
    /\ UNCHANGED <<voiceSessionMessages, showTextMessages, voiceSessions>>

\* the New Session button of the transcript view: setShowTextMessages(false)
NewSession ==
    /\ TranscriptFrame
    /\ TranscriptShown
    /\ showTextMessages' = FALSE
    /\ UNCHANGED <<connectionDetails, voiceSessionMessages, voiceSessions>>

\* C29: the transcript shown after a voice session has ended holds only lines
\* received during that session, none of an earlier session.
C29_TranscriptOfThatSessionOnly ==
    TranscriptShown
        => \A i \in DOMAIN voiceSessionMessages :
               voiceSessionMessages[i].session = voiceSessions

\* the component as mounted: no connection details, no line, the flag off
TranscriptInit ==
    /\ connectionDetails = FALSE /\ voiceSessionMessages = <<>>
    /\ showTextMessages = FALSE /\ voiceSessions = 0
    /\ isCreatingConversation = FALSE /\ viewState = "main"
    /\ activeConversation = NullId /\ committedFlag = FALSE
    /\ committedView = "main" /\ pendingCreates = 0 /\ createdCount = 0
    /\ clicks = 0 /\ ignoredClicks = 0
    /\ messagesTable = <<>> /\ voiceSessionsTable = {} /\ lastSave = NoSave
    /\ nowSec = 1
    /\ storage = [access |-> LegacyToken, auth |-> NoToken]
    /\ userAuthenticated = FALSE
    /\ flow = NoFlow
    /\ starts = 0
    /\ nCreated = 0
    /\ nFallback = 0
    /\ sessionCalls = <<>>
    /\ clientRooms = {}
    /\ lastError = "none"
    /\ hookSessionId = NullId /\ livekitToken = "null" /\ intervalRef = FALSE
    /\ liveTimers = 0 /\ endCalls = <<>> /\ ends = 0
    /\ roomState = "disconnected" /\ handlerRegistered = FALSE /\ mounted = FALSE
    /\ showTranscriptions = TRUE /\ streams = {} /\ delivered = 0 /\ dropped = {}
    /\ uttPhase = <<>> /\ transcriptions = <<>> /\ currentTranscriptions = {}
    /\ transcriptionData = <<>> /\ cleanupData = <<>> /\ renderPending = FALSE
    /\ saveRequests = <<>> /\ uiError = "none" /\ endedBy = "none"
    /\ stateListeners = 0 /\ errorReports = 0
    /\ voiceSessionSet = FALSE /\ joins = 0 /\ retries = 0 /\ staleRooms = <<>>
    /\ clock = 0 /\ envConfigured = TRUE /\ issued = <<>> /\ answers = <<>>

TranscriptNext ==
    \/ VoiceSessionConnected
    \/ \E role \in {"user", "assistant"} : VciHandleTranscription(role)
    \/ HandleVoiceSessionEnd
    \/ VoiceRoomDisconnected
    \/ NewSession

SpecTranscript ==
    /\ TranscriptInit
    /\ [][TranscriptNext]_vars

====
